---- MODULE Spec2Model ----
(***************************************************************************)
(* Model of cmd/main.go: SaveData1 (update a file in place) and SaveData2  *)
(* (write a temporary file, then rename it), run by concurrent callers on  *)
(* one directory `path` and one file name `file`, over a small model of    *)
(* the file system the os package exposes (MkdirAll, OpenFile, Write,      *)
(* Sync, Close, Remove, Rename), with a concurrent reader of path+file and *)
(* a power loss.                                                           *)
(***************************************************************************)
EXTENDS Integers, Sequences, FiniteSets, TLC

(* ---- bounds ---- *)
MaxCalls == 2
MaxStamp == 2

Callers == {1, 2}
Stamps == 1..MaxStamp
Payloads == {<<1, 2>>, <<2, 1>>}
Old == <<3, 4, 5>>

(* ---- error values (main.go:14-19) ---- *)
WriteErr == "write: bytes not written"
OpenErr == "open: file not opened"
SyncErr == "sync: data not persisted"
FolderErr == "folder: path not created"
\* the error os.Rename returns and the error File.Sync returns, passed on as they are
LinkError == "*os.LinkError"
PathError == "*os.PathError"
Nil == "nil"
Pending == "pending"

(* ---- path names ---- *)
path == [k |-> "dir", s |-> 0]
pathfile == [k |-> "file", s |-> 0]
TmpName(s) == [k |-> "tmp", s |-> s]
Paths == {path, pathfile} \cup {TmpName(s) : s \in Stamps}

(* ---- directory entries ----                                             *)
(* data: the content a reader sees; disk: the contents stable storage may  *)
(* hold for this name; dirty: data has bytes no Sync has covered; by: the  *)
(* caller that created the file (0: it was there before any call).         *)
Absent == [kind |-> "absent", data |-> <<>>, disk |-> {}, dirty |-> FALSE, by |-> 0]
DirEnt == [kind |-> "dir", data |-> <<>>, disk |-> {}, dirty |-> FALSE, by |-> 0]
FileEnt(d, by) == [kind |-> "file", data |-> d, disk |-> {d}, dirty |-> FALSE, by |-> by]

Content(e) == [kind |-> e.kind, data |-> e.data]
FileOf(d) == [kind |-> "file", data |-> d]
NoFile == [kind |-> "absent", data |-> <<>>]
Unread == [kind |-> "unread", data |-> <<>>]

Prefixes(s) == {SubSeq(s, 1, k) : k \in 0..Len(s)}

(* ---- the os package ----                                                *)
(* Each call yields the new file system, err (it failed) and env (it       *)
(* failed only because the environment made it fail: an I/O error, a full  *)
(* disk, a permission), which fault injects.                               *)
Done(f) == [fs |-> f, err |-> FALSE, env |-> FALSE]
Fail(f, env) == [fs |-> f, err |-> TRUE, env |-> env]

MkdirAll(f, p, fault) ==
  IF f[p].kind = "file"
    THEN Fail(f, FALSE)
    ELSE IF fault
      THEN Fail(f, TRUE)
      ELSE IF f[p].kind = "dir"
        THEN Done(f)
        ELSE Done([f EXCEPT ![p] = DirEnt])

OpenFile(f, p, flags, by, fault) ==
  IF f[path].kind # "dir" \/ f[p].kind = "dir"
    THEN Fail(f, FALSE)
    ELSE IF f[p].kind = "file"
      THEN IF "O_EXCL" \in flags
        THEN Fail(f, FALSE)
        ELSE IF fault
          THEN Fail(f, TRUE)
          ELSE IF "O_TRUNC" \in flags
            THEN Done([f EXCEPT ![p].data = <<>>,
                                ![p].dirty = (f[p].dirty \/ f[p].data # <<>>)])
            ELSE Done(f)
      ELSE IF "O_CREATE" \notin flags
        THEN Fail(f, FALSE)
        ELSE IF fault
          THEN Fail(f, TRUE)
          ELSE Done([f EXCEPT ![p] = [kind |-> "file", data |-> <<>>,
                                      disk |-> f[p].disk, dirty |-> FALSE,
                                      by |-> by]])

(* one chunk b written at offset off of the open file *)
WriteAt(d, off, b) ==
  IF off < Len(d)
    THEN [i \in 1..Len(d) |-> IF i = off + 1 THEN b ELSE d[i]]
    ELSE [i \in 1..(off + 1) |-> IF i <= Len(d) THEN d[i] ELSE IF i = off + 1 THEN b ELSE 0]

WriteChunk(f, p, off, b) ==
  [f EXCEPT ![p].data = WriteAt(f[p].data, off, b), ![p].dirty = TRUE]

Sync(f, p) ==
  [f EXCEPT ![p].disk = {f[p].data}, ![p].dirty = FALSE]

Remove(f, p, fault) ==
  IF f[p].kind # "file"
    THEN Fail(f, FALSE)
    ELSE IF fault
      THEN Fail(f, TRUE)
      ELSE Done([f EXCEPT ![p] = [Absent EXCEPT !.disk = f[p].disk]])

(* os.Rename refuses a destination that is a directory before it renames *)
Rename(f, src, dst, fault) ==
  IF f[src].kind # "file" \/ f[dst].kind = "dir"
    THEN Fail(f, FALSE)
    ELSE IF fault
      THEN Fail(f, TRUE)
      ELSE Done([f EXCEPT ![dst] = [f[src] EXCEPT !.disk = f[dst].disk],
                          ![src] = [Absent EXCEPT !.disk = f[src].disk]])

(* what a name may hold after a power loss *)
CrashOutcomes(e) ==
  IF e.kind = "dir"
    THEN {e}
    ELSE (IF e.disk = {} THEN {Absent} ELSE {FileEnt(d, e.by) : d \in e.disk})
         \cup (IF e.kind = "file"
                 THEN {FileEnt(d, e.by) : d \in (IF e.dirty THEN Prefixes(e.data) ELSE {e.data})}
                 ELSE {Absent})

RECURSIVE AfterCrash(_, _)
AfterCrash(f, S) ==
  IF S = {}
    THEN {f}
    ELSE LET p == CHOOSE x \in S : TRUE IN
           UNION {AfterCrash([f EXCEPT ![p] = e], S \ {p}) : e \in CrashOutcomes(f[p])}

VARIABLES fs, pc, fn, data, stamp, err, ret, off, pre, steps, alone,
          ncalls, lastRename, seen, crashed

vars == <<fs, pc, fn, data, stamp, err, ret, off, pre, steps, alone,
          ncalls, lastRename, seen, crashed>>

InFlight == {c \in Callers : pc[c] \notin {"idle", "done", "crashed"}}

tmp(c) == TmpName(stamp[c])

(* the record of a step: ok, it succeeded; fault, only the environment made it fail *)
Entry(op, ok, fault) == [op |-> op, ok |-> ok, fault |-> fault]
Log(c, op, ok, fault) == [steps EXCEPT ![c] = Append(@, Entry(op, ok, fault))]
(* a step after which the function returns: the deferred fp.Close() runs *)
LogNoClose(c, op, ok, fault) ==
  [steps EXCEPT ![c] = Append(@, Entry(op, ok, fault))]
LogClose(c, op, ok, fault) ==
  [steps EXCEPT ![c] = @ \o <<Entry(op, ok, fault), Entry("close", TRUE, FALSE)>>]

InitFs ==
  { [p \in Paths |-> Absent],
    [p \in Paths |-> IF p = path THEN DirEnt ELSE Absent],
    [p \in Paths |-> IF p = path THEN DirEnt
                     ELSE IF p = pathfile THEN FileEnt(Old, 0) ELSE Absent] }

Init ==
  /\ fs \in InitFs
  /\ pc = [c \in Callers |-> "idle"]
  /\ fn = [c \in Callers |-> "none"]
  /\ data = [c \in Callers |-> <<>>]
  /\ stamp = [c \in Callers |-> 1]
  /\ err = [c \in Callers |-> Nil]
  /\ ret = [c \in Callers |-> Pending]
  /\ off = [c \in Callers |-> 0]
  /\ pre = [c \in Callers |-> NoFile]
  /\ steps = [c \in Callers |-> <<>>]
  /\ alone = [c \in Callers |-> FALSE]
  /\ ncalls = 0
  /\ lastRename = 0
  /\ seen = Unread
  /\ crashed = FALSE

(* a caller enters f(path, file, d); SaveData2 draws its stamp (main.go:71). *)
(* alone: no call was in flight then, and none has been entered since.       *)
Enter(c, f, d, s) ==
  /\ ~crashed
  /\ pc[c] \in {"idle", "done"}
  /\ ncalls < MaxCalls
  /\ ncalls' = ncalls + 1
  /\ fn' = [fn EXCEPT ![c] = f]
  /\ data' = [data EXCEPT ![c] = d]
  /\ stamp' = [stamp EXCEPT ![c] = s]
  /\ off' = [off EXCEPT ![c] = 0]
  /\ pre' = [pre EXCEPT ![c] = Content(fs[pathfile])]
  /\ alone' = [x \in Callers |-> x = c /\ InFlight = {}]
  /\ UNCHANGED <<lastRename, seen, crashed>>

(* ---- SaveData2 (main.go:68-104) ---- *)
OpenFlags2Trunc == {"O_WRONLY", "O_CREATE", "O_TRUNC"}
OpenFlags2 == {"O_WRONLY", "O_CREATE", "O_EXCL"}
RenameDst == path
CleanupNameTarget(c) == pathfile
CleanupNameOther(c) == TmpName(IF stamp[c] = 1 THEN 2 ELSE 1)
CleanupName(c) == tmp(c)

(* the deferred function after fp.Close(): os.Remove(tmp) if err != nil *)
DeferredNoRemove(e) == "done"
DeferredFallsThrough(e) == IF e # Nil THEN "rename" ELSE "done"
Deferred(e) == IF e # Nil THEN "remove" ELSE "done"

(* the call and its first step, os.MkdirAll(path) *)
S2Mkdir(c) ==
  \E d \in Payloads, s \in Stamps, fault \in BOOLEAN :
    LET r == MkdirAll(fs, path, fault) IN
      /\ Enter(c, "SaveData2", d, s)
      /\ fs' = r.fs
      /\ steps' = [steps EXCEPT ![c] = <<Entry("mkdir", ~r.err, r.env)>>]
      /\ err' = [err EXCEPT ![c] = IF r.err THEN "err" ELSE Nil]
      /\ ret' = [ret EXCEPT ![c] = IF r.err THEN FolderErr ELSE Pending]
      /\ pc' = [pc EXCEPT ![c] = IF r.err THEN "done" ELSE "open"]

S2Open(c) ==
  /\ fn[c] = "SaveData2" /\ pc[c] = "open"
  /\ \E fault \in BOOLEAN :
       LET r == OpenFile(fs, tmp(c), OpenFlags2, c, fault) IN
         /\ fs' = r.fs
         /\ steps' = Log(c, "open", ~r.err, r.env)
         /\ err' = [err EXCEPT ![c] = IF r.err THEN "err" ELSE Nil]
         /\ ret' = [ret EXCEPT ![c] = IF r.err THEN OpenErr ELSE Pending]
         /\ pc' = [pc EXCEPT ![c] = IF r.err THEN "done" ELSE "write"]
  /\ UNCHANGED <<fn, data, stamp, off, pre, alone, ncalls, lastRename, seen, crashed>>

(* fp.Write(data), one chunk at a time; a failure may come after any chunk *)
S2Write(c) ==
  /\ fn[c] = "SaveData2" /\ pc[c] = "write"
  /\ \E fault \in BOOLEAN :
       IF fault
         THEN /\ steps' = LogClose(c, "write", FALSE, TRUE)
              /\ err' = [err EXCEPT ![c] = "err"]
              /\ ret' = [ret EXCEPT ![c] = WriteErr]
              /\ pc' = [pc EXCEPT ![c] = Deferred("err")]
              /\ UNCHANGED <<fs, off>>
         ELSE /\ fs' = WriteChunk(fs, tmp(c), off[c], data[c][off[c] + 1])
              /\ off' = [off EXCEPT ![c] = @ + 1]
              /\ IF off[c] + 1 = Len(data[c])
                   THEN /\ steps' = Log(c, "write", TRUE, FALSE)
                        /\ pc' = [pc EXCEPT ![c] = "sync"]
                   ELSE UNCHANGED <<steps, pc>>
              /\ UNCHANGED <<err, ret>>
  /\ UNCHANGED <<fn, data, stamp, pre, alone, ncalls, lastRename, seen, crashed>>

S2SyncNoFlush(c) ==
  /\ fn[c] = "SaveData2" /\ pc[c] = "sync"
  /\ steps' = Log(c, "sync", TRUE, FALSE)
  /\ pc' = [pc EXCEPT ![c] = "rename"]
  /\ UNCHANGED <<fs, fn, data, stamp, err, ret, off, pre, alone, ncalls, lastRename, seen, crashed>>

S2SyncAsWriteErr(c) ==
  /\ fn[c] = "SaveData2" /\ pc[c] = "sync"
  /\ \E fault \in BOOLEAN :
       IF fault
         THEN /\ steps' = LogClose(c, "sync", FALSE, TRUE)
              /\ err' = [err EXCEPT ![c] = "err"]
              /\ ret' = [ret EXCEPT ![c] = WriteErr]
              /\ pc' = [pc EXCEPT ![c] = Deferred("err")]
              /\ UNCHANGED fs
         ELSE /\ fs' = Sync(fs, tmp(c))
              /\ steps' = Log(c, "sync", TRUE, FALSE)
              /\ pc' = [pc EXCEPT ![c] = "rename"]
              /\ UNCHANGED <<err, ret>>
  /\ UNCHANGED <<fn, data, stamp, off, pre, alone, ncalls, lastRename, seen, crashed>>

S2Sync(c) ==
  /\ fn[c] = "SaveData2" /\ pc[c] = "sync"
  /\ \E fault \in BOOLEAN :
       IF fault
         THEN /\ steps' = LogClose(c, "sync", FALSE, TRUE)
              /\ err' = [err EXCEPT ![c] = "err"]
              /\ ret' = [ret EXCEPT ![c] = SyncErr]
              /\ pc' = [pc EXCEPT ![c] = Deferred("err")]
              /\ UNCHANGED fs
         ELSE /\ fs' = Sync(fs, tmp(c))
              /\ steps' = Log(c, "sync", TRUE, FALSE)
              /\ pc' = [pc EXCEPT ![c] = "rename"]
              /\ UNCHANGED <<err, ret>>
  /\ UNCHANGED <<fn, data, stamp, off, pre, alone, ncalls, lastRename, seen, crashed>>

(* return os.Rename(tmp, path): the result is returned, err is not assigned, *)
(* so the deferred function sees the err the successful Sync left            *)
S2RenameRetry(c) ==
  /\ fn[c] = "SaveData2" /\ pc[c] = "rename"
  /\ \E fault \in BOOLEAN :
       LET r == Rename(fs, tmp(c), RenameDst, fault) IN
         /\ fs' = r.fs
         /\ ret' = [ret EXCEPT ![c] = IF r.err THEN LinkError ELSE Nil]
         /\ lastRename' = c
         /\ IF r.err /\ ~\E i \in DOMAIN steps[c] : steps[c][i].op = "rename"
              THEN /\ steps' = Log(c, "rename", FALSE, r.env)
                   /\ UNCHANGED pc
              ELSE /\ steps' = LogClose(c, "rename", ~r.err, r.env)
                   /\ pc' = [pc EXCEPT ![c] = Deferred(err[c])]
  /\ UNCHANGED <<fn, data, stamp, err, off, pre, alone, ncalls, seen, crashed>>
S2Rename(c) ==
  /\ fn[c] = "SaveData2" /\ pc[c] = "rename"
  /\ \E fault \in BOOLEAN :
       LET r == Rename(fs, tmp(c), RenameDst, fault) IN
         /\ fs' = r.fs
         /\ steps' = LogClose(c, "rename", ~r.err, r.env)
         /\ ret' = [ret EXCEPT ![c] = IF r.err THEN LinkError ELSE Nil]
         /\ lastRename' = c
         /\ pc' = [pc EXCEPT ![c] = Deferred(err[c])]
  /\ UNCHANGED <<fn, data, stamp, err, off, pre, alone, ncalls, seen, crashed>>

(* os.Remove(tmp) in the deferred function; its error is dropped *)
S2RemoveOverridesErr(c) ==
  /\ fn[c] = "SaveData2" /\ pc[c] = "remove"
  /\ \E fault \in BOOLEAN :
       LET r == Remove(fs, CleanupName(c), fault) IN
         /\ fs' = r.fs
         /\ steps' = Log(c, "remove", ~r.err, r.env)
         /\ ret' = [ret EXCEPT ![c] = IF r.err THEN PathError ELSE @]
  /\ pc' = [pc EXCEPT ![c] = "done"]
  /\ UNCHANGED <<fn, data, stamp, err, off, pre, alone, ncalls, lastRename, seen, crashed>>
S2Remove(c) ==
  /\ fn[c] = "SaveData2" /\ pc[c] = "remove"
  /\ \E fault \in BOOLEAN :
       LET r == Remove(fs, CleanupName(c), fault) IN
         /\ fs' = r.fs
         /\ steps' = Log(c, "remove", ~r.err, r.env)
  /\ pc' = [pc EXCEPT ![c] = "done"]
  /\ UNCHANGED <<fn, data, stamp, err, ret, off, pre, alone, ncalls, lastRename, seen, crashed>>

(* ---- SaveData1 (main.go:32-52) ---- *)
OpenFlags1NoTrunc == {"O_WRONLY", "O_CREATE"}
OpenFlags1 == {"O_WRONLY", "O_CREATE", "O_TRUNC"}

(* the call and its first step, os.MkdirAll(path) *)
S1Mkdir(c) ==
  \E d \in Payloads, fault \in BOOLEAN :
    LET r == MkdirAll(fs, path, fault) IN
      /\ Enter(c, "SaveData1", d, stamp[c])
      /\ fs' = r.fs
      /\ steps' = [steps EXCEPT ![c] = <<Entry("mkdir", ~r.err, r.env)>>]
      /\ err' = [err EXCEPT ![c] = IF r.err THEN "err" ELSE Nil]
      /\ ret' = [ret EXCEPT ![c] = IF r.err THEN FolderErr ELSE Pending]
      /\ pc' = [pc EXCEPT ![c] = IF r.err THEN "done" ELSE "open"]

S1Open(c) ==
  /\ fn[c] = "SaveData1" /\ pc[c] = "open"
  /\ \E fault \in BOOLEAN :
       LET r == OpenFile(fs, pathfile, OpenFlags1, c, fault) IN
         /\ fs' = r.fs
         /\ steps' = Log(c, "open", ~r.err, r.env)
         /\ err' = [err EXCEPT ![c] = IF r.err THEN "err" ELSE Nil]
         /\ ret' = [ret EXCEPT ![c] = IF r.err THEN OpenErr ELSE Pending]
         /\ pc' = [pc EXCEPT ![c] = IF r.err THEN "done" ELSE "write"]
  /\ UNCHANGED <<fn, data, stamp, off, pre, alone, ncalls, lastRename, seen, crashed>>

(* fp.Write(data), one chunk at a time; on a failure defer fp.Close() runs *)
S1Write(c) ==
  /\ fn[c] = "SaveData1" /\ pc[c] = "write"
  /\ \E fault \in BOOLEAN :
       IF fault
         THEN /\ steps' = LogClose(c, "write", FALSE, TRUE)
              /\ err' = [err EXCEPT ![c] = "err"]
              /\ ret' = [ret EXCEPT ![c] = WriteErr]
              /\ pc' = [pc EXCEPT ![c] = "done"]
              /\ UNCHANGED <<fs, off>>
         ELSE /\ fs' = WriteChunk(fs, pathfile, off[c], data[c][off[c] + 1])
              /\ off' = [off EXCEPT ![c] = @ + 1]
              /\ IF off[c] + 1 = Len(data[c])
                   THEN /\ steps' = Log(c, "write", TRUE, FALSE)
                        /\ pc' = [pc EXCEPT ![c] = "sync"]
                   ELSE UNCHANGED <<steps, pc>>
              /\ UNCHANGED <<err, ret>>
  /\ UNCHANGED <<fn, data, stamp, pre, alone, ncalls, lastRename, seen, crashed>>

(* return fp.Sync(): the error of Sync is returned as it is; defer fp.Close() *)
S1Sync(c) ==
  /\ fn[c] = "SaveData1" /\ pc[c] = "sync"
  /\ \E fault \in BOOLEAN :
       /\ fs' = IF fault THEN fs ELSE Sync(fs, pathfile)
       /\ steps' = LogClose(c, "sync", ~fault, fault)
       /\ ret' = [ret EXCEPT ![c] = IF fault THEN PathError ELSE Nil]
       /\ pc' = [pc EXCEPT ![c] = "done"]
  /\ UNCHANGED <<fn, data, stamp, err, off, pre, alone, ncalls, lastRename, seen, crashed>>

(* ---- the environment ---- *)
(* a reader opens path+file and reads it while some call is in flight *)
Read ==
  /\ InFlight # {}
  /\ seen' = Content(fs[pathfile])
  /\ UNCHANGED <<fs, pc, fn, data, stamp, err, ret, off, pre, steps, alone,
                 ncalls, lastRename, crashed>>

(* power loss during a call: every call in flight stops, unsynced state is *)
(* lost or kept                                                            *)
Crash ==
  /\ ~crashed
  /\ InFlight # {}
  /\ crashed' = TRUE
  /\ fs' \in AfterCrash(fs, Paths)
  /\ pc' = [c \in Callers |-> IF c \in InFlight THEN "crashed" ELSE pc[c]]
  /\ UNCHANGED <<fn, data, stamp, err, ret, off, pre, steps, alone,
                 ncalls, lastRename, seen>>

SaveData2(c) ==
  \/ S2Mkdir(c)
  \/ S2Open(c)
  \/ S2Write(c)
  \/ S2Sync(c)
  \/ S2Rename(c)
  \/ S2Remove(c)

SaveData1(c) ==
  \/ S1Mkdir(c)
  \/ S1Open(c)
  \/ S1Write(c)
  \/ S1Sync(c)

Next ==
  \/ \E c \in Callers : SaveData2(c)
  \/ Read

Spec == Init /\ [][Next]_vars

NextCrash ==
  \/ \E c \in Callers : SaveData2(c)
  \/ Crash

(* the file has been saved (and flushed) before the calls, as main does *)
InitSaved == Init /\ fs[pathfile].kind = "file"

SpecCrash == InitSaved /\ [][NextCrash]_vars

Next1 ==
  \/ \E c \in Callers : SaveData1(c)
  \/ Read

Spec1 == Init /\ [][Next1]_vars

(* ---- main (main.go:106-120): SaveData1, then SaveData2 ---- *)
NextMain ==
  \/ ncalls = 0 /\ S1Mkdir(1)
  \/ S1Open(1)
  \/ S1Write(1)
  \/ S1Sync(1)
  \/ ncalls = 1 /\ fn[1] = "SaveData1" /\ S2Mkdir(1)
  \/ S2Open(1)
  \/ S2Write(1)
  \/ S2Sync(1)
  \/ S2Rename(1)
  \/ S2Remove(1)

SpecMain == Init /\ [][NextMain]_vars


(* ---- what a finished or running call has done ---- *)
Did(c, op, ok) == \E i \in DOMAIN steps[c] : steps[c][i].op = op /\ steps[c][i].ok = ok
Faulted(c, op) == \E i \in DOMAIN steps[c] : steps[c][i].op = op /\ steps[c][i].fault
Tried(c, op) == Did(c, op, TRUE) \/ Did(c, op, FALSE)
IsMainStep(e) == e.op \notin {"close", "remove"}
MainSteps(c) == SelectSeq(steps[c], IsMainStep)
Returned2(c) == fn[c] = "SaveData2" /\ pc[c] = "done"
OwnTmpLeft(c) == Did(c, "open", TRUE) /\ fs[tmp(c)].kind = "file" /\ fs[tmp(c)].by = c
OthersIdle(c) == \A x \in Callers \ {c} : pc[x] = "idle"

(* C1: a reader that opens path+file while a SaveData2 call on an existing *)
(* target is in flight sees the complete pre-call content or the complete  *)
(* payload of that call: never an absent, empty, partial or mixed file.    *)
C1_ReaderSeesOldOrNew ==
  [][Read => \A c \in InFlight :
               (fn[c] = "SaveData2" /\ pre[c].kind = "file")
                 => seen' \in {pre[c], FileOf(data[c])}]_vars

C1_Witness ==
  \E c \in Callers :
    /\ fn[c] = "SaveData2" /\ pc[c] = "rename"
    /\ ncalls = 1 /\ pre[c] = FileOf(Old) /\ seen = FileOf(Old)

(* C2: when mkdir, temp create, write and flush succeed (and nothing makes *)
(* the rename fail), SaveData2 returns no error, path+file holds exactly   *)
(* the payload and no temp file remains.                                   *)
C2_SuccessInstallsPayload ==
  \A c \in Callers :
    (Returned2(c) /\ Did(c, "sync", TRUE) /\ ~Faulted(c, "rename") /\ OthersIdle(c))
      => /\ ret[c] = Nil
         /\ Content(fs[pathfile]) = FileOf(data[c])
         /\ \A s \in Stamps : fs[TmpName(s)].kind # "file"

(* C3 as stated: after a failed write or flush no temp file of the call    *)
(* remains and path+file has its pre-call content.                         *)
C3_NoTempAfterWriteOrSyncFailure ==
  \A c \in Callers :
    (Returned2(c) /\ ret[c] \in {WriteErr, SyncErr})
      => /\ ~OwnTmpLeft(c)
         /\ Content(fs[pathfile]) = pre[c]

(* C3 amended: after a failed write or flush the call has closed the temp  *)
(* file and tried once to delete it; the temp file is gone unless that     *)
(* delete failed, and path+file has its pre-call content.                  *)
C3_TempDeletedUnlessRemoveFails ==
  \A c \in Callers :
    (Returned2(c) /\ ret[c] \in {WriteErr, SyncErr})
      => /\ Tried(c, "remove")
         /\ Did(c, "remove", TRUE) => ~OwnTmpLeft(c)
         /\ Content(fs[pathfile]) = pre[c]

C3_Witness ==
  \E c \in Callers :
    /\ Returned2(c) /\ ret[c] = SyncErr /\ Did(c, "remove", TRUE)
    /\ pre[c] = FileOf(Old) /\ fs[tmp(c)].kind = "absent"

(* C4: when the rename fails SaveData2 returns an error and has deleted    *)
(* its temp file; no exit path leaves the temp file of the call behind     *)
(* (stated here for the calls none of whose deletes failed).               *)
C4_NoOrphanOnAnyExit ==
  \A c \in Callers :
    (Returned2(c) /\ ~Did(c, "remove", FALSE))
      => /\ Did(c, "rename", FALSE) => ret[c] # Nil
         /\ ~OwnTmpLeft(c)

(* C5: after a power loss during a SaveData2 call path+file holds the      *)
(* complete pre-call content or the complete payload; it holds the         *)
(* pre-call content when the call had not renamed; and a call reaches its  *)
(* rename only with its temp file holding the payload, all of it flushed.  *)
C5_CrashLeavesOldOrNew ==
  /\ \A c \in Callers :
       (fn[c] = "SaveData2" /\ pc[c] = "crashed")
         => /\ Content(fs[pathfile]) \in {pre[c], FileOf(data[c])}
            /\ ~Did(c, "rename", TRUE) => Content(fs[pathfile]) = pre[c]
  /\ \A c \in Callers :
       (fn[c] = "SaveData2" /\ (pc[c] = "rename" \/ Tried(c, "rename")))
         => Did(c, "sync", TRUE)
  /\ \A c \in Callers :
       (fn[c] = "SaveData2" /\ pc[c] = "rename")
         => /\ fs[tmp(c)].kind = "file"
            /\ fs[tmp(c)].data = data[c]
            /\ ~fs[tmp(c)].dirty
            /\ fs[tmp(c)].disk = {data[c]}

C5_Witness ==
  \E c \in Callers :
    /\ crashed /\ fn[c] = "SaveData2" /\ pc[c] = "crashed"
    /\ Did(c, "sync", TRUE) /\ ~Tried(c, "rename")
    /\ pre[c] = FileOf(Old) /\ Content(fs[pathfile]) = FileOf(Old)

(* C6: when the generated temp name already names a file, the create       *)
(* fails, SaveData2 returns OpenErr at once (no cleanup runs) and the      *)
(* file system is left as it was: the file is not truncated, changed or    *)
(* deleted.                                                                *)
C6_ExclusiveCreate ==
  [][\A c \in Callers :
       (S2Open(c) /\ fs[tmp(c)].kind = "file")
         => (fs' = fs /\ ret'[c] = OpenErr /\ pc'[c] = "done")]_vars

C6_Witness ==
  \E c \in Callers :
    /\ Returned2(c) /\ ret[c] = OpenErr /\ ~Faulted(c, "open")
    /\ fs[tmp(c)].kind = "file" /\ fs[tmp(c)].by # c
    /\ fs[tmp(c)].data \in Payloads

(* C7: when two SaveData2 calls with different payloads overlap and both   *)
(* get through their rename, path+file ends with the payload of the call   *)
(* whose rename ran last.                                                  *)
C7_LastRenameWins ==
  ( /\ \A c \in Callers : Returned2(c) /\ Tried(c, "rename") /\ ~Faulted(c, "rename")
    /\ \A c \in Callers : ~alone[c]
    /\ data[1] # data[2] )
    => \E c \in Callers : c = lastRename /\ Content(fs[pathfile]) = FileOf(data[c])

(* C8: two SaveData2 calls in sequence with the same payload, every step   *)
(* succeeding, leave path+file holding the payload and no temp file.       *)
C8_ResaveIdempotent ==
  ( /\ \A c \in Callers : Returned2(c) /\ Did(c, "sync", TRUE) /\ ~Faulted(c, "rename")
    /\ \E c \in Callers : alone[c]
    /\ data[1] = data[2] )
    => /\ Content(fs[pathfile]) = FileOf(data[1])
       /\ \A s \in Stamps : fs[TmpName(s)].kind # "file"

(* C9: a finished SaveData2 call ran mkdir, open, write, sync, rename in   *)
(* that order up to the first step that failed and none after it; it       *)
(* returns FolderErr, OpenErr, WriteErr, SyncErr or the rename error for   *)
(* that step, and nil only when all five succeeded.                        *)
StepOrder == <<"mkdir", "open", "write", "sync", "rename">>
ErrOf(op) ==
  CASE op = "mkdir" -> FolderErr
    [] op = "open" -> OpenErr
    [] op = "write" -> WriteErr
    [] op = "sync" -> SyncErr
    [] op = "rename" -> LinkError

C9_FirstFailureDecides ==
  \A c \in Callers :
    Returned2(c)
      => LET m == MainSteps(c)
             n == Len(m)
         IN /\ n \in 1..5
            /\ \A i \in 1..n : m[i].op = StepOrder[i]
            /\ \A i \in 1..(n - 1) : m[i].ok
            /\ ret[c] = (IF m[n].ok THEN Nil ELSE ErrOf(m[n].op))
            /\ m[n].ok => n = 5
            /\ ret[c] = LinkError => ret[c] \notin {FolderErr, OpenErr, WriteErr, SyncErr}

C9_Witness ==
  /\ Returned2(1) /\ ret[1] = SyncErr /\ Len(MainSteps(1)) = 4
  /\ Returned2(2) /\ ret[2] = LinkError /\ Len(MainSteps(2)) = 5

(* C10: SaveData1 returns nil only after the whole payload was written and *)
(* the flush succeeded, and then (no other call having overlapped or       *)
(* followed) path+file holds exactly the payload, flushed.                 *)

C10_InPlaceSuccess ==
  \A c \in Callers :
    (fn[c] = "SaveData1" /\ ret[c] = Nil)
      => /\ Did(c, "write", TRUE) /\ Did(c, "sync", TRUE) /\ off[c] = Len(data[c])
         /\ alone[c] => /\ Content(fs[pathfile]) = FileOf(data[c])
                        /\ fs[pathfile].disk = {data[c]}
                        /\ ~fs[pathfile].dirty

C10_Witness ==
  \E c \in Callers :
    /\ fn[c] = "SaveData1" /\ pc[c] = "done" /\ ret[c] = Nil /\ alone[c]
    /\ pre[c] = FileOf(Old) /\ Content(fs[pathfile]) = FileOf(data[c])

(* C11: a finished SaveData1 call returns FolderErr when MkdirAll failed,  *)
(* OpenErr when the open failed, WriteErr when the write failed and        *)
(* SyncErr when the flush failed.                                          *)
Returned1(c) == fn[c] = "SaveData1" /\ pc[c] = "done"

C11_InPlaceErrorKinds ==
  \A c \in Callers :
    Returned1(c)
      => /\ Did(c, "mkdir", FALSE) => ret[c] = FolderErr
         /\ Did(c, "open", FALSE) => ret[c] = OpenErr
         /\ Did(c, "write", FALSE) => ret[c] = WriteErr
         /\ Did(c, "sync", FALSE) => ret[c] = SyncErr

C13_ErrorLeavesTarget ==
  \A c \in Callers :
    (fn[c] = "SaveData2" /\ ret[c] \notin {Nil, Pending})
      => Content(fs[pathfile]) = pre[c]

C13_Witness ==
  /\ Returned2(1) /\ ret[1] = WriteErr /\ Did(1, "remove", TRUE) /\ pre[1] = FileOf(Old)
  /\ Returned2(2) /\ ret[2] = OpenErr /\ pre[2] = FileOf(Old)
  /\ Content(fs[pathfile]) = FileOf(Old)

(* C14: a reader that opens path+file while a SaveData1 call (the only one *)
(* since it began) is between its truncating open and the end of its write *)
(* sees the file holding only the part of the payload written so far:      *)
(* empty or partial.                                                       *)
C14_InPlaceNoIsolation ==
  [][Read => \A c \in InFlight :
               (fn[c] = "SaveData1" /\ pc[c] = "write" /\ alone[c])
                 => /\ seen' = FileOf(SubSeq(data[c], 1, off[c]))
                    /\ off[c] < Len(data[c])]_vars

C14_Witness ==
  \E c \in Callers :
    /\ fn[c] = "SaveData1" /\ pc[c] = "write" /\ alone[c] /\ pre[c] = FileOf(Old)
    /\ off[c] = 1 /\ seen = FileOf(<<data[c][1]>>)

(* C15: at every moment of a SaveData2 call the steps taken so far are a   *)
(* prefix of mkdir, open, write, sync, rename with only the last one       *)
(* possibly failed; the call stands before the next step while all         *)
(* succeeded and nothing is decided, and once a step failed or the rename  *)
(* ran only the close and the delete of the cleanup follow; a rename is    *)
(* attempted only after a successful write and a successful flush.         *)
C15_StepsInOrder ==
  \A c \in Callers :
    fn[c] = "SaveData2"
      => LET m == MainSteps(c)
             n == Len(m)
             k == Len(steps[c])
         IN /\ n \in 1..5
            /\ \A i \in 1..n : m[i].op = StepOrder[i]
            /\ \A i \in 1..(n - 1) : m[i].ok
            /\ SubSeq(steps[c], 1, n) = m
            /\ pc[c] \in {"open", "write", "sync", "rename", "remove", "done"}
            /\ pc[c] \in {"open", "write", "sync", "rename"}
                 => /\ m[n].ok /\ n < 5 /\ k = n
                    /\ pc[c] = StepOrder[n + 1]
                    /\ ret[c] = Pending
            /\ pc[c] \in {"remove", "done"}
                 => /\ ~m[n].ok \/ n = 5
                    /\ ret[c] # Pending
            /\ pc[c] = "remove" => k = n + 1 /\ steps[c][k].op = "close"
            /\ pc[c] = "done"
                 => \/ k = n /\ n <= 2
                    \/ k = n + 1 /\ steps[c][k].op = "close"
                    \/ k = n + 2 /\ steps[c][n + 1].op = "close" /\ steps[c][k].op = "remove"
            /\ Tried(c, "rename") => Did(c, "write", TRUE) /\ Did(c, "sync", TRUE)

C15_Witness ==
  /\ fn[1] = "SaveData2" /\ pc[1] = "rename" /\ Len(steps[1]) = 4
  /\ ncalls = 2 /\ ret[1] = Pending /\ fs[tmp(1)].data = data[1]

(* C16: within one SaveData2 call MkdirAll, the temp create, Write, Sync   *)
(* and Rename are each called at most once, and a call that got as far as  *)
(* the rename called it exactly once.                                      *)
Attempts(c, op) == Cardinality({i \in DOMAIN steps[c] : steps[c][i].op = op})

C16_EachStepAtMostOnce ==
  \A c \in Callers :
    fn[c] = "SaveData2"
      => /\ \A i \in 1..Len(StepOrder) : Attempts(c, StepOrder[i]) <= 1
         /\ off[c] <= Len(data[c])
         /\ (pc[c] = "done" /\ ret[c] \in {Nil, LinkError}) => Attempts(c, "rename") = 1

C16_Witness ==
  \E c \in Callers :
    /\ Returned2(c) /\ ret[c] = LinkError /\ Did(c, "rename", FALSE)
    /\ Attempts(c, "rename") = 1 /\ Len(steps[c]) = 6

(* C17: when a step of SaveData2 failed after the temp file was created    *)
(* and the delete of the cleanup failed too, the call still returns the    *)
(* error of the step that failed: WriteErr or SyncErr.                     *)
C17_RemoveFailureKeepsError ==
  \A c \in Callers :
    (fn[c] = "SaveData2" /\ Did(c, "remove", FALSE))
      => LET m == MainSteps(c) IN
           /\ ~m[Len(m)].ok
           /\ ret[c] = ErrOf(m[Len(m)].op)
           /\ ret[c] \in {WriteErr, SyncErr}

C17_Witness ==
  \E c \in Callers :
    /\ Returned2(c) /\ Did(c, "write", FALSE) /\ Did(c, "remove", FALSE)
    /\ ret[c] = WriteErr /\ OwnTmpLeft(c)

(* C18: when a SaveData1 or SaveData2 call has returned, the handle it     *)
(* opened has been closed exactly once; a call whose open failed, or which *)
(* never got to the open, closed nothing and deleted nothing.              *)
C18_HandleClosedOnce ==
  \A c \in Callers :
    /\ Attempts(c, "close") <= 1
    /\ pc[c] = "done"
         => /\ Attempts(c, "close") = (IF Did(c, "open", TRUE) THEN 1 ELSE 0)
            /\ ~Did(c, "open", TRUE) => ~Tried(c, "remove")
    /\ pc[c] \in {"open", "write", "sync", "rename"} => Attempts(c, "close") = 0

C18_Witness ==
  /\ Returned2(1) /\ ncalls = 2 /\ ret[1] = SyncErr
  /\ Attempts(1, "close") = 1 /\ Did(1, "remove", TRUE)

(* C19: as long as a SaveData2 call that created its temp file has not     *)
(* deleted it itself, that file exists, is the one this call created and   *)
(* holds exactly what this call wrote to it, whatever the other calls do;  *)
(* and no step of a call other than its temp create (name taken) and its   *)
(* rename fails without a failure of the operating system.                 *)
C19_OwnTempOnly ==
  \A c \in Callers :
    fn[c] = "SaveData2"
      => /\ (Did(c, "open", TRUE) /\ ~Did(c, "remove", TRUE))
              => /\ fs[tmp(c)].kind = "file"
                 /\ fs[tmp(c)].by = c
                 /\ fs[tmp(c)].data = SubSeq(data[c], 1, off[c])
         /\ \A i \in DOMAIN steps[c] :
              (~steps[c][i].ok /\ ~steps[c][i].fault)
                => steps[c][i].op \in {"open", "rename"}

C19_Witness ==
  \E c, x \in Callers :
    /\ c # x /\ stamp[c] # stamp[x]
    /\ Returned2(c) /\ ret[c] = SyncErr /\ Did(c, "remove", TRUE)
    /\ fn[x] = "SaveData2" /\ pc[x] = "write" /\ off[x] = 1
    /\ fs[tmp(x)].kind = "file" /\ fs[tmp(x)].by = x
    /\ fs[tmp(c)].kind = "absent"

====
